---- MODULE Spec2Model ----
(***************************************************************************)
(* A model of p123api.client: the Client session (retry ceiling, timeout,  *)
(* token, Authorization header), its auth() operation, the protected       *)
(* request wrapper _req_with_auth_fallback and the module-level            *)
(* req_with_retry loop.  The remote service is the environment: every HTTP *)
(* attempt is answered by an arbitrary response or by a ConnectionError.   *)
(***************************************************************************)
EXTENDS Integers, Sequences, FiniteSets, TLC

\* ---------------------------------------------------------------- bounds
\* number of distinct non-empty response bodies the service may send
NumBodies == 1

\* ------------------------------------------------------ program constants
DefaultMaxReqRetries == 5
DefaultTimeout == 300
MinRetries == 1
MaxRetries == 10
MinTimeout == 1
AuthTimeout == 30
BackoffFactor == 2
ServerErrorFloor == 500
StatusOK == 200
StatusForbidden == 403
StatusPaymentRequired == 402

\* Python's None where a string is expected (token, header, argument)
None == "None"
\* Python's None where a Response is expected
NoneResp == [none |-> TRUE]
\* requests.ConnectionError raised by the request function
ConnectionError == [fault |-> TRUE]

ENDPOINT == "https://api.portfolio123.com"
AUTH_PATH == "/auth"

\* ------------------------------------------------------------ environment
Bodies == {""} \cup {"body" \o ToString(i) : i \in 1..NumBodies}
Statuses == {200, 400, 401, 402, 403, 404, 406, 500}
Responses == [status_code : Statuses, text : Bodies]
Outcomes == Responses \cup {ConnectionError}

\* arguments a caller may hand to the two setters
IntArg(n) == [is_int |-> TRUE, value |-> n]
NonIntArg == [is_int |-> FALSE, value |-> 0]
RetryInputs == {IntArg(n) : n \in (MinRetries - 1)..(MaxRetries + 1)} \cup {NonIntArg}
TimeoutInputs == {IntArg(0), IntArg(1), NonIntArg}

\* the arguments of _req_with_auth_fallback (name is only a label and is left out)
Desc(m, u, p, d, h) == [method |-> m, url |-> u, params |-> p, data |-> d, headers |-> h]
NoDesc == Desc(None, None, None, None, None)
\* the endpoint methods, one of each shape, and a direct call of the wrapper
Endpoints == {"rank_touch", "strategy", "stock_factor_delete", "_req_with_auth_fallback"}
EndpointDesc(e) ==
    CASE e = "rank_touch" -> Desc("POST", ENDPOINT \o "/rank/1/touch", None, None, None)
      [] e = "strategy" -> Desc("GET", ENDPOINT \o "/strategy/1", None, None, None)
      [] e = "stock_factor_delete" ->
             Desc("DELETE", ENDPOINT \o "/stockFactor/1", None, None, None)
      [] OTHER -> Desc("POST", ENDPOINT \o "/stockFactor/upload/1", "params", "file", "hdr")

VARIABLES
    max_req_retries,  \* Client._max_req_retries
    timeout,          \* Client._timeout
    token,            \* Client._token
    authorization,    \* Client._session.headers["Authorization"], None when unset
    pc,               \* position of the single caller's thread
    op,               \* the public operation in progress or last finished
    via,              \* who called auth(): "user" or "fallback"
    stop,             \* the stop argument of the current _req_with_auth_fallback
    desc,             \* the descriptor arguments of the current _req_with_auth_fallback
    kind,             \* which request the running req_with_retry issues
    max_tries,        \* req_with_retry's max_tries
    tries,            \* req_with_retry's tries
    resp,             \* req_with_retry's resp, then the caller's resp
    result,           \* how the public operation ended
    inner,            \* how its _req_with_auth_fallback call ended
    rlog,             \* what the running / last req_with_retry call did
    clog,             \* what the running / last public operation did
    wire              \* the last HTTP request handed to the session

session == <<max_req_retries, timeout, token, authorization>>
control == <<pc, op, via, stop, desc>>
frame == <<kind, max_tries, tries, resp>>
vars == <<max_req_retries, timeout, token, authorization, pc, op, via, stop, desc,
          kind, max_tries, tries, resp, result, inner, rlog, clog, wire>>


\* ------------------------------------------------ observation records
NoWire == [kind |-> "none", verb |-> None, url |-> None, json |-> None, data |-> None,
           headers |-> None, timeout |-> 0, authorization |-> None]
NoResult == [outcome |-> "none", value |-> NoneResp, type |-> None, message |-> "",
             resp |-> NoneResp, cause |-> None]
Returned(v) == [NoResult EXCEPT !.outcome = "returned", !.value = v]
\* raise ClientException(m, resp=r, exception=c)
Raised(m, r, c) == [NoResult EXCEPT !.outcome = "raised", !.type = "ClientException",
                    !.message = m, !.resp = r, !.cause = c]
\* what Python raises when .json() is applied to None
NoneTypeError == [NoResult EXCEPT !.outcome = "raised", !.type = "AttributeError",
                  !.message = "'NoneType' object has no attribute 'json'"]
NewRlog(m) == [max |-> m, calls |-> 0, slept |-> 0, wait |-> 0, allFault |-> TRUE,
               all5xx |-> TRUE, last |-> NoneResp, ended |-> "none"]
NewClog(tok, hdr, iss) ==
    [authCalls |-> 0, respLog |-> <<>>, retries |-> 0, authResp |-> NoneResp,
     entryToken |-> tok, entryAuthorization |-> hdr, issued |-> iss, desc |-> NoDesc,
     arg |-> NonIntArg]

\* ---------------------------------------------------- Client.__init__
Init ==
    /\ max_req_retries = DefaultMaxReqRetries
    /\ timeout = DefaultTimeout
    /\ token = None
    /\ authorization = None
    /\ pc = "idle"
    /\ op = "init"
    /\ via = "none"
    /\ stop = FALSE
    /\ desc = NoDesc
    /\ kind = "none"
    /\ max_tries = 0
    /\ tries = 0
    /\ resp = NoneResp
    /\ result = NoResult
    /\ inner = NoResult
    /\ rlog = NewRlog(0)
    /\ clog = NewClog(None, None, None)
    /\ wire = NoWire

\* ------------------------------------------------------------- setters
\* the upper limit forgotten
ValidRetries_NoUpperLimit(a) == a.is_int /\ ~(a.value < MinRetries)
ValidRetries(a) == a.is_int /\ ~(a.value < MinRetries) /\ ~(a.value > MaxRetries)
ValidTimeout(a) == a.is_int /\ ~(a.value < MinTimeout)

\* a public operation starts: the per-operation observations are reset
Begin(name) ==
    /\ pc = "idle"
    /\ op' = name
    /\ wire' = NoWire

\* what an endpoint method makes of its _req_with_auth_fallback call: rank_touch drops
\* the value, the others parse it with .json() (the parsed value stands as [json: text])
EndpointResult(e, r) ==
    IF r.outcome = "raised" \/ e = "_req_with_auth_fallback" THEN r
    ELSE IF e = "rank_touch" THEN Returned(NoneResp)
    ELSE IF r.value = NoneResp THEN NoneTypeError
    ELSE Returned([json |-> r.value.text])

\* the public operation e ends, r being how its body ended: its locals go out of scope
End(e, r) ==
    /\ pc' = "idle"
    /\ via' = "none"
    /\ stop' = FALSE
    /\ desc' = NoDesc
    /\ kind' = "none"
    /\ max_tries' = 0
    /\ tries' = 0
    /\ resp' = NoneResp
    /\ inner' = IF e \in Endpoints THEN r ELSE NoResult
    /\ result' = IF e \in Endpoints THEN EndpointResult(e, r) ELSE r

set_max_request_retries(a) ==
    /\ Begin("set_max_request_retries")
    /\ max_req_retries' = IF ValidRetries(a) THEN a.value ELSE max_req_retries
    /\ End("set_max_request_retries",
           IF ValidRetries(a)
             THEN Returned(NoneResp)
             ELSE Raised("retries needs to be an int between 1 and 10", NoneResp, None))
    /\ clog' = [NewClog(token, authorization, clog.issued) EXCEPT !.arg = a]
    /\ rlog' = NewRlog(0)
    /\ UNCHANGED <<timeout, token, authorization>>

set_timeout(a) ==
    /\ Begin("set_timeout")
    /\ timeout' = IF ValidTimeout(a) THEN a.value ELSE timeout
    /\ End("set_timeout",
           IF ValidTimeout(a)
             THEN Returned(NoneResp)
             ELSE Raised("timeout needs to be an int greater than 0", NoneResp, None))
    /\ clog' = [NewClog(token, authorization, clog.issued) EXCEPT !.arg = a]
    /\ rlog' = NewRlog(0)
    /\ UNCHANGED <<max_req_retries, token, authorization>>

\* ------------------------------------------------------ req_with_retry
\* off by one: one pass too many
LoopRuns_Inclusive(t, m) == t <= m
LoopRuns(t, m) == t < m
\* exponential backoff
Backoff_Exponential(t) == IF t > 0 THEN BackoffFactor ^ t ELSE 0
Backoff(t) == IF t > 0 THEN BackoffFactor * t ELSE 0
\* client errors retried like server errors
Accepted_Below400(r) == r.status_code < 400
Accepted(r) == r.status_code < ServerErrorFloor
\* off by one: the last pass is not recognised
LastTry_OffByOne(t, m) == t = m
\* no retry after a fault: any pass is taken for the last
LastTry_AnyTry(t, m) == t + 1 <= m
LastTry(t, m) == t + 1 = m
\* the exception swallowed: nothing is raised and None is returned
ConnectivityError_Swallowed == Returned(NoneResp)
ConnectivityError == Raised("Cannot connect to API", NoneResp, "ConnectionError")

\* the keyword arguments auth() and _req_with_auth_fallback hand to the session,
\* with the session's Authorization header of the moment
\* authenticate given the session's timeout instead of its own
AuthRequest_SessionTimeout(h) ==
    [kind |-> "auth", verb |-> "post", url |-> ENDPOINT \o AUTH_PATH,
     json |-> "auth_params", data |-> None, headers |-> None, timeout |-> timeout,
     authorization |-> h]
AuthRequest(h) ==
    [kind |-> "auth", verb |-> "post", url |-> ENDPOINT \o AUTH_PATH,
     json |-> "auth_params", data |-> None, headers |-> None, timeout |-> AuthTimeout,
     authorization |-> h]
ProtectedRequest(d, t, h) ==
    IF d.method = "POST"
      THEN [kind |-> "request", verb |-> "post", url |-> d.url, json |-> d.params,
            data |-> d.data, headers |-> d.headers, timeout |-> t, authorization |-> h]
      ELSE [kind |-> "request", verb |-> IF d.method = "DELETE" THEN "delete" ELSE "get",
            url |-> d.url, json |-> None, data |-> None, headers |-> d.headers,
            timeout |-> t, authorization |-> h]
Kwargs == IF kind = "auth" THEN AuthRequest(authorization)
                           ELSE ProtectedRequest(desc, timeout, authorization)

\* req_with_retry is entered with tries = 0 and resp = None
StartRetry(k, m, log) ==
    /\ clog' = [log EXCEPT !.retries = @ + 1]
    /\ pc' = "retry"
    /\ kind' = k
    /\ max_tries' = m
    /\ tries' = 0
    /\ resp' = NoneResp
    /\ rlog' = NewRlog(m)

\* where req_with_retry's return value goes
ReturnPoint == IF kind = "auth" THEN "auth_resp" ELSE "decide"

\* one pass of the loop body: the sleep, then the call of req answered by o
Attempt(o, end) ==
    /\ pc = "retry"
    /\ LoopRuns(tries, max_tries)
    /\ wire' = Kwargs
    /\ rlog' = [max |-> rlog.max,
                calls |-> rlog.calls + 1,
                slept |-> rlog.slept + Backoff(tries),
                wait |-> Backoff(tries),
                allFault |-> rlog.allFault /\ o = ConnectionError,
                all5xx |-> rlog.all5xx /\ o # ConnectionError /\ ~Accepted(o),
                last |-> o,
                ended |-> end]
    /\ clog' = clog

RetryAccepted(o) ==
    /\ o \in Responses
    /\ Accepted(o)
    /\ Attempt(o, "returned")
    /\ resp' = o
    /\ pc' = ReturnPoint
    /\ UNCHANGED <<session, op, via, stop, desc, kind, max_tries, tries, result, inner>>

RetryServerError(o) ==
    /\ o \in Responses
    /\ ~Accepted(o)
    /\ Attempt(o, "none")
    /\ resp' = o
    /\ tries' = tries + 1
    /\ UNCHANGED <<session, control, kind, max_tries, result, inner>>

RetryFault ==
    /\ ~LastTry(tries, max_tries)
    /\ Attempt(ConnectionError, "none")
    /\ tries' = tries + 1
    /\ UNCHANGED <<session, control, kind, max_tries, resp, result, inner>>

RetryFaultLast ==
    /\ LastTry(tries, max_tries)
    /\ Attempt(ConnectionError, "raised")
    /\ End(op, ConnectivityError)
    /\ UNCHANGED <<session, op>>

\* the loop condition fails: return resp
RetryExhausted ==
    /\ pc = "retry"
    /\ ~LoopRuns(tries, max_tries)
    /\ pc' = ReturnPoint
    /\ rlog' = [rlog EXCEPT !.ended = "returned"]
    /\ UNCHANGED <<session, op, via, stop, desc, frame, result, inner, clog, wire>>

\* ---------------------------------------------------------- Client.auth
AuthOK(r) == r.status_code = StatusOK
\* the separating space left out of the header
Bearer_NoSpace(text) == "Bearer" \o text
Bearer(text) == "Bearer " \o text
\* lines 93-95: self._token and the session's Authorization header after a response r
\* the token dropped when authentication fails
TokenAfter_Clears(old, r) == IF AuthOK(r) THEN r.text ELSE None
TokenAfter(old, r) == IF AuthOK(r) THEN r.text ELSE old
\* headers.setdefault in place of headers.update: a header once set is never replaced
AuthorizationAfter_SetDefault(old, r) ==
    IF AuthOK(r) /\ old = None THEN Bearer(r.text) ELSE old
\* the header updated outside the status check
AuthorizationAfter_Always(old, r) == Bearer(r.text)
AuthorizationAfter(old, r) == IF AuthOK(r) THEN Bearer(r.text) ELSE old
\* the status table left out: always the server's text
AuthMessage_Verbatim(r) == r.text
AuthMessage(r) ==
    CASE r.status_code = 406 -> "user account inactive"
      [] r.status_code = 402 -> "paying subscription required"
      [] r.status_code = 401 -> "invalid id/key combination or key inactive"
      [] r.status_code = 400 -> "invalid key"
      [] OTHER -> r.text
Prefixed(message) == IF message # "" THEN ": " \o message ELSE message
AuthenticationError(r) == Raised("API authentication failed" \o Prefixed(AuthMessage(r)), r, None)

\* the caller invokes auth() itself
auth ==
    /\ Begin("auth")
    /\ via' = "user"
    /\ StartRetry("auth", max_req_retries,
                  [NewClog(token, authorization, clog.issued) EXCEPT !.authCalls = 1])
    /\ result' = NoResult
    /\ inner' = NoResult
    /\ UNCHANGED <<session, stop, desc>>

\* status 200: the token and the header are set; auth() returns to its caller, which is
\* either the user or line 161, where the wrapper calls itself with stop=True and
\* without the headers argument
Recurse(d) == [d EXCEPT !.headers = None]
AuthSucceeds ==
    /\ pc = "auth_resp"
    /\ AuthOK(resp)
    /\ token' = TokenAfter(token, resp)
    /\ authorization' = AuthorizationAfter(authorization, resp)
    /\ clog' = [clog EXCEPT !.issued = resp.text, !.authResp = resp]
    /\ IF via = "user"
         THEN End(op, Returned(NoneResp))
         ELSE /\ pc' = "fallback"
              /\ stop' = TRUE
              /\ desc' = Recurse(desc)
              /\ via' = "none"
              /\ UNCHANGED <<frame, result, inner>>
    /\ rlog' = NewRlog(0)
    /\ UNCHANGED <<max_req_retries, timeout, op, wire>>

AuthFails ==
    /\ pc = "auth_resp"
    /\ ~AuthOK(resp)
    /\ token' = TokenAfter(token, resp)
    /\ authorization' = AuthorizationAfter(authorization, resp)
    /\ clog' = [clog EXCEPT !.authResp = resp]
    /\ End(op, AuthenticationError(resp))
    /\ rlog' = NewRlog(0)
    /\ UNCHANGED <<max_req_retries, timeout, op, wire>>

\* ------------------------------------------- Client._req_with_auth_fallback
\* the request sent whether or not a header is set
HasAuthorization_Always(h) == TRUE
HasAuthorization(h) == h # None
NeedsAuth(r) == IF r = NoneResp THEN TRUE ELSE r.status_code = StatusForbidden
\* lines 158-159: authenticate and call again, unless this already is the second call
\* the stop flag ignored
MayReauth_IgnoresStop(r, s) == NeedsAuth(r)
MayReauth(r, s) == NeedsAuth(r) /\ ~s
\* the wrong success code
RequestOK_Created(r) == r.status_code = 201
RequestOK(r) == r.status_code = StatusOK
\* the quota message left out
RequestMessage_Verbatim(r) == r.text
RequestMessage(r) ==
    IF r.text = "" /\ r.status_code = StatusPaymentRequired
      THEN "request quota exhausted"
      ELSE r.text
RequestError(r) == Raised("API request failed" \o Prefixed(RequestMessage(r)), r, None)

\* an endpoint method (or a direct caller) enters the wrapper with stop=False
Call(e) ==
    /\ Begin(e)
    /\ pc' = "fallback"
    /\ stop' = FALSE
    /\ desc' = EndpointDesc(e)
    /\ clog' = [NewClog(token, authorization, clog.issued) EXCEPT !.desc = EndpointDesc(e)]
    /\ rlog' = NewRlog(0)
    /\ result' = NoResult
    /\ inner' = NoResult
    /\ UNCHANGED <<session, via, frame>>

\* lines 133-157: with a header the request goes out, without one resp stays None
FallbackSends ==
    /\ pc = "fallback"
    /\ HasAuthorization(authorization)
    /\ StartRetry("request", max_req_retries, clog)
    /\ UNCHANGED <<session, op, via, stop, desc, result, inner, wire>>

FallbackSkips ==
    /\ pc = "fallback"
    /\ ~HasAuthorization(authorization)
    /\ pc' = "decide"
    /\ resp' = NoneResp
    /\ UNCHANGED <<session, op, via, stop, desc, kind, max_tries, tries, result, inner,
                   rlog, clog, wire>>

\* lines 158-177, resp being None or req_with_retry's return value
Logged(r) == [clog EXCEPT !.respLog = Append(@, r)]

Reauthenticates ==
    /\ pc = "decide"
    /\ MayReauth(resp, stop)
    /\ via' = "fallback"
    /\ StartRetry("auth", max_req_retries, [Logged(resp) EXCEPT !.authCalls = @ + 1])
    /\ UNCHANGED <<session, op, stop, desc, result, inner, wire>>

\* resp is None or 403 and stop is set: no branch returns or raises, the function
\* falls off its end and returns None
FallsThrough ==
    /\ pc = "decide"
    /\ NeedsAuth(resp)
    /\ ~MayReauth(resp, stop)
    /\ clog' = Logged(resp)
    /\ End(op, Returned(NoneResp))
    /\ rlog' = NewRlog(0)
    /\ UNCHANGED <<session, op, wire>>

ReturnsResponse ==
    /\ pc = "decide"
    /\ ~NeedsAuth(resp)
    /\ RequestOK(resp)
    /\ clog' = Logged(resp)
    /\ End(op, Returned(resp))
    /\ rlog' = NewRlog(0)
    /\ UNCHANGED <<session, op, wire>>

RaisesRequestError ==
    /\ pc = "decide"
    /\ ~NeedsAuth(resp)
    /\ ~RequestOK(resp)
    /\ clog' = Logged(resp)
    /\ End(op, RequestError(resp))
    /\ rlog' = NewRlog(0)
    /\ UNCHANGED <<session, op, wire>>

\* ------------------------------------------------------- specification
Next ==
    \/ \E a \in RetryInputs : set_max_request_retries(a)
    \/ \E a \in TimeoutInputs : set_timeout(a)
    \/ auth
    \/ \E e \in Endpoints : Call(e)
    \/ \E o \in Responses : RetryAccepted(o)
    \/ \E o \in Responses : RetryServerError(o)
    \/ RetryFault
    \/ RetryFaultLast
    \/ RetryExhausted
    \/ AuthSucceeds
    \/ AuthFails
    \/ FallbackSends
    \/ FallbackSkips
    \/ Reauthenticates
    \/ FallsThrough
    \/ ReturnsResponse
    \/ RaisesRequestError

Spec == Init /\ [][Next]_vars

\* ------------------------------------------------------------- properties
\* helpers of the properties below
IsResponse(o) == o # NoneResp /\ o # ConnectionError
HasStatus(r, code) == IF IsResponse(r) THEN r.status_code = code ELSE FALSE
FirstResp == clog.respLog[1]
SecondResp == clog.respLog[2]
Finished == pc = "idle" /\ op \in Endpoints
HeldTokenAtEntry == clog.entryAuthorization # None
RECURSIVE SumTo(_)
SumTo(n) == IF n <= 0 THEN 0 ELSE n + SumTo(n - 1)

\* the case of C1 and C2: the session held a token, the first protected request came
\* back 403, and the request sent again after the re-authentication came back with `code`
ForbiddenThen(code) ==
    /\ Finished
    /\ HeldTokenAtEntry
    /\ Len(clog.respLog) = 2
    /\ HasStatus(FirstResp, StatusForbidden)
    /\ HasStatus(SecondResp, code)

\* C1: a protected call of a session holding a token whose first request returns 403
\* and whose request after the re-authentication returns 403 again raises a
\* ClientException carrying the second response, and has authenticated once.
C1_SecondForbiddenRaises ==
    ForbiddenThen(StatusForbidden) =>
        /\ inner.outcome = "raised"
        /\ inner.type = "ClientException"
        /\ inner.resp = SecondResp
        /\ clog.authCalls = 1

\* C2: a protected call of a session holding a token whose first request returns 403
\* and whose request after the re-authentication returns 200 has authenticated exactly
\* once, between the two requests, and returns that 200 response.
C2_ForbiddenThenOK ==
    /\ ForbiddenThen(StatusOK) =>
          /\ clog.authCalls = 1
          /\ inner = Returned(SecondResp)
          /\ result = EndpointResult(op, Returned(SecondResp))
    \* the one authenticate call lies between the two requests
    /\ (op \in Endpoints /\ HeldTokenAtEntry) =>
          /\ (clog.respLog = <<>>) => clog.authCalls = 0 /\ ~stop
          /\ stop => clog.authCalls = 1 /\ Len(clog.respLog) = 1
          /\ Len(clog.respLog) = 2 => clog.authCalls = 1
C2_Witness ==
    /\ ForbiddenThen(StatusOK)
    /\ result.outcome = "returned"
    /\ clog.authCalls = 1

\* C3: no protected HTTP request is sent while the session has no Authorization
\* header; a protected call entered without a header sends nothing before it
\* authenticates, and has authenticated exactly once when its first protected
\* request goes out.
C3_AuthenticateFirst ==
    /\ wire.kind = "request" => wire.authorization # None
    /\ (pc = "retry" /\ kind = "request") => authorization # None
    /\ (op \in Endpoints /\ ~HeldTokenAtEntry) =>
          /\ clog.authCalls = 0 => wire.kind = "none"
          /\ (wire.kind = "request" \/ (pc = "retry" /\ kind = "request")) =>
                /\ clog.authCalls = 1
                /\ clog.respLog[1] = NoneResp
          /\ clog.authCalls <= 1
C3_Witness ==
    /\ op \in Endpoints
    /\ ~HeldTokenAtEntry
    /\ wire.kind = "request"
    /\ clog.authCalls = 1

\* C4: a req_with_retry call whose request function raises ConnectionError on every
\* attempt calls it exactly max_tries times (1..10), then raises the connectivity
\* ClientException once, wrapping the ConnectionError, having slept
\* 2*(1+...+(max_tries-1)) seconds in all.
C4_AllFaults ==
    (rlog.allFault /\ rlog.calls > 0) =>
        /\ rlog.max \in MinRetries..MaxRetries
        /\ rlog.calls <= rlog.max
        /\ rlog.ended # "returned"
        /\ (rlog.ended = "raised") = (rlog.calls = rlog.max)
        /\ rlog.ended = "raised" =>
              /\ pc = "idle"
              /\ result = ConnectivityError
              /\ result.type = "ClientException"
              /\ result.cause = "ConnectionError"
              /\ rlog.slept = BackoffFactor * SumTo(rlog.max - 1)
        /\ rlog.ended = "none" => pc = "retry" /\ result.outcome = "none"
C4_Witness ==
    /\ rlog.allFault
    /\ rlog.ended = "raised"
    /\ rlog.max = MaxRetries
    /\ rlog.calls = MaxRetries

\* C5: a req_with_retry call whose request function returns a 5xx response on every
\* attempt calls it exactly max_tries times (1..10) and then returns the response of
\* the last attempt, without raising.
C5_AllServerErrors ==
    (rlog.all5xx /\ rlog.calls > 0) =>
        /\ rlog.max \in MinRetries..MaxRetries
        /\ rlog.calls <= rlog.max
        /\ rlog.ended # "raised"
        /\ result.outcome # "raised"
        /\ resp = rlog.last
        /\ (rlog.ended = "returned") => (rlog.calls = rlog.max /\ pc = ReturnPoint)
        /\ (rlog.ended = "none") => (pc = "retry" /\ tries = rlog.calls)
        /\ (rlog.calls = rlog.max /\ rlog.ended = "none") => ENABLED RetryExhausted
C5_Witness ==
    /\ rlog.all5xx
    /\ rlog.ended = "returned"
    /\ rlog.calls = MaxRetries
    /\ resp.status_code = ServerErrorFloor

\* C6: in req_with_retry the first attempt answered with a status below 500 ends the
\* call: that response is returned and no further attempt or sleep follows; a 404 on
\* the first attempt means one call of the request function and no sleep.
C6_AcceptedEndsCall ==
    /\ (IsResponse(rlog.last) /\ rlog.last.status_code < ServerErrorFloor) =>
          /\ rlog.ended = "returned"
          /\ pc = ReturnPoint
          /\ resp = rlog.last
          /\ tries = rlog.calls - 1
    /\ (rlog.calls = 1 /\ HasStatus(rlog.last, 404)) => rlog.slept = 0
C6_Witness ==
    /\ rlog.calls = 1
    /\ HasStatus(rlog.last, 404)
    /\ rlog.ended = "returned"
    /\ rlog.slept = 0

\* C7: a protected request always carries, as its Authorization header, "Bearer "
\* followed by the token the latest successful authenticate returned: the request
\* sent again after a re-authentication carries the new token, never the previous
\* one, and so do all later requests until the next successful authenticate.
C7_RefreshReplacesToken ==
    /\ wire.kind = "request" =>
          /\ clog.issued # None
          /\ wire.authorization = Bearer(clog.issued)
    /\ (pc = "retry" /\ kind = "request") => authorization = Bearer(clog.issued)
    /\ stop =>
          /\ HasStatus(clog.authResp, StatusOK)
          /\ clog.issued = clog.authResp.text
          /\ authorization = Bearer(clog.authResp.text)
C7_Witness ==
    /\ wire.kind = "request"
    /\ clog.authCalls = 1
    /\ HeldTokenAtEntry
    /\ HasStatus(clog.authResp, StatusOK)
    /\ clog.entryAuthorization # wire.authorization
    /\ wire.authorization = Bearer(clog.authResp.text)

\* the case of C8: a protected request came back 403, authenticate was entered again
\* and has not (or not yet) returned 200
ForbiddenUnrefreshed ==
    /\ op \in Endpoints
    /\ clog.authCalls = 1
    /\ Len(clog.respLog) >= 1
    /\ HasStatus(FirstResp, StatusForbidden)
    /\ ~HasStatus(clog.authResp, StatusOK)

\* C8 as claimed: once a protected request has returned 403 the session holds no
\* token and no Authorization header while authenticate runs again, nor after it
\* failed.
C8_TokenDiscardedOn403 ==
    ForbiddenUnrefreshed => (token = None /\ authorization = None)

\* C8 as amended: a 403 on a protected request leaves the token and the header as
\* they were; authenticate runs again with the stale token still held, only its 200
\* replaces it, and when it fails the session still holds the stale token and header.
C8_StaleTokenKept ==
    ForbiddenUnrefreshed =>
        /\ token = clog.entryToken
        /\ authorization = clog.entryAuthorization
        /\ token # None
        /\ authorization # None
        /\ IsResponse(clog.authResp) =>
              (pc = "idle" /\ inner = AuthenticationError(clog.authResp))
C8_Witness ==
    /\ ForbiddenUnrefreshed
    /\ pc = "idle"
    /\ IsResponse(clog.authResp)
    /\ inner.outcome = "raised"
    /\ token # None
    /\ authorization = Bearer(token)

\* the case of C9: a session without token or header whose authenticate call ended
\* with a response other than 200
UnauthenticatedAuthFailed ==
    /\ op \in Endpoints \cup {"auth"}
    /\ clog.entryToken = None
    /\ clog.entryAuthorization = None
    /\ IsResponse(clog.authResp)
    /\ ~HasStatus(clog.authResp, StatusOK)

\* C9: when the authenticate call of a session without a token ends with a status
\* other than 200, the operation ends there with the authentication ClientException
\* carrying that response: no second authenticate call, no protected request, token
\* and header still absent; inside a protected call the exception reaches the caller.
C9_FailedAuthIsTerminal ==
    UnauthenticatedAuthFailed =>
        /\ pc = "idle"
        /\ result = AuthenticationError(clog.authResp)
        /\ result.type = "ClientException"
        /\ token = None
        /\ authorization = None
        /\ clog.authCalls = 1
        /\ clog.retries = 1
        /\ wire.kind = "auth"
        /\ op \in Endpoints => (inner = result /\ clog.respLog = <<NoneResp>>)
C9_Witness ==
    /\ UnauthenticatedAuthFailed
    /\ op \in Endpoints
    /\ result.outcome = "raised"
    /\ HasStatus(clog.authResp, StatusForbidden)

\* how far the caller's thread is through a public operation, and what is left of it
Stage ==
    CASE pc = "fallback" -> IF stop THEN 5 ELSE 0
      [] pc = "retry" /\ kind = "request" -> IF stop THEN 6 ELSE 1
      [] pc = "decide" -> IF stop THEN 7 ELSE 2
      [] pc = "retry" /\ kind = "auth" -> 3
      [] pc = "auth_resp" -> 4
      [] OTHER -> 8
Measure ==
    (8 - Stage) * (MaxRetries + 1) + (IF pc = "retry" THEN max_tries - tries ELSE 0)
CallBounds ==
    /\ clog.authCalls <= 1
    /\ Len(clog.respLog) <= 2
    /\ clog.retries - clog.authCalls <= 2
    /\ clog.retries <= 3
    /\ rlog.calls <= max_req_retries
    /\ rlog.max \in {0, max_req_retries}
    /\ Measure \in 0..(8 * (MaxRetries + 1))
Progresses == pc # "idle" => Measure' < Measure

\* C10: whatever the service answers, a public operation makes at most one
\* authenticate call, at most two protected requests, hence at most three
\* req_with_retry calls of at most max_req_retries HTTP attempts each, and every step
\* of it brings it closer to its end: it terminates.
C10_CallIsBounded == []CallBounds /\ [][Progresses]_vars
C10_Witness ==
    /\ op \in Endpoints
    /\ clog.authCalls = 1
    /\ clog.retries = 3
    /\ Len(clog.respLog) = 2
    /\ max_req_retries = MaxRetries
    /\ pc = "idle"

\* the reason C11 gives for an authenticate response of status code and body text
ClaimedAuthReason(code, text) ==
    CASE code = 406 -> "user account inactive"
      [] code = 402 -> "paying subscription required"
      [] code = 401 -> "invalid id/key combination or key inactive"
      [] code = 400 -> "invalid key"
      [] OTHER -> text
\* a public operation whose authenticate call got its final response
AuthAnswered == op \in Endpoints \cup {"auth"} /\ IsResponse(clog.authResp)

\* C11: authenticate's failure message is decided by the final status: 406, 402, 401
\* and 400 give their fixed reasons, every other status but 200 (403 and a last 5xx
\* included) gives the server's text; the message is "API authentication failed",
\* followed by ": " and the reason when there is one.  Status 200 does not raise and
\* stores the text as the token.
C11_AuthMessageByStatus ==
    AuthAnswered =>
        IF clog.authResp.status_code = 200
          THEN /\ token = clog.authResp.text
               /\ pc = "idle" =>
                     IF op = "auth" THEN result = Returned(NoneResp)
                                    ELSE wire.kind = "request"
          ELSE /\ pc = "idle"
               /\ result.outcome = "raised"
               /\ result.type = "ClientException"
               /\ result.resp = clog.authResp
               /\ LET reason == ClaimedAuthReason(clog.authResp.status_code,
                                                  clog.authResp.text)
                  IN result.message =
                        IF reason = "" THEN "API authentication failed"
                        ELSE "API authentication failed: " \o reason
C11_Witness ==
    /\ AuthAnswered
    /\ clog.authResp.status_code = 402
    /\ clog.authResp.text # ""
    /\ result.message = "API authentication failed: paying subscription required"

\* the response the wrapper judged last in the finished call
LastResp == clog.respLog[Len(clog.respLog)]
\* a finished protected call whose last response is neither 200 nor 403
OtherStatusLast ==
    /\ Finished
    /\ Len(clog.respLog) >= 1
    /\ IsResponse(LastResp)
    /\ LastResp.status_code \notin {200, 403}

\* C12: a protected request whose final response is neither 200 nor 403 raises the
\* request ClientException carrying that response, its message being the server's
\* body, or "request quota exhausted" for a 402 with an empty body; so it is on the
\* first request and on the one sent again after a re-authentication, and the status
\* itself triggers no authenticate call.
C12_RequestErrorMessage ==
    OtherStatusLast =>
        /\ inner.outcome = "raised"
        /\ inner.type = "ClientException"
        /\ inner.resp = LastResp
        /\ result = inner
        /\ LET reason == IF LastResp.status_code = 402 /\ LastResp.text = ""
                           THEN "request quota exhausted"
                           ELSE LastResp.text
           IN inner.message = IF reason = "" THEN "API request failed"
                              ELSE "API request failed: " \o reason
        /\ clog.authCalls = Len(clog.respLog) - 1
        /\ wire.kind = "request"
C12_Witness ==
    /\ OtherStatusLast
    /\ Len(clog.respLog) = 2
    /\ HasStatus(FirstResp, 403)
    /\ LastResp.status_code = 402
    /\ LastResp.text = ""
    /\ inner.message = "API request failed: request quota exhausted"

\* a protected call ended by the transport's escalation while a protected request
\* was being sent
ProtectedRequestUnreachable ==
    /\ Finished
    /\ rlog.ended = "raised"
    /\ wire.kind = "request"

\* C13: when req_with_retry gives up on a protected request (its last try raised
\* ConnectionError), the connectivity ClientException reaches the caller of the
\* protected call: no authenticate call and no further protected request follow it,
\* and the token and the header are what they were when the request was sent.
C13_ConnectivityErrorPropagates ==
    ProtectedRequestUnreachable =>
        /\ inner.outcome = "raised"
        /\ inner.type = "ClientException"
        /\ inner.message = "Cannot connect to API"
        /\ inner.cause = "ConnectionError"
        /\ result = inner
        /\ rlog.calls = max_req_retries
        /\ authorization = wire.authorization
        /\ clog.authCalls = Len(clog.respLog)
        /\ clog.retries = 1 + 2 * clog.authCalls - (IF HeldTokenAtEntry THEN 0 ELSE 1)
        /\ IF clog.respLog = <<>>
             THEN /\ clog.authCalls = 0
                  /\ clog.retries = 1
                  /\ token = clog.entryToken
                  /\ authorization = clog.entryAuthorization
             ELSE /\ token = clog.authResp.text
                  /\ token = clog.issued
C13_Witness ==
    /\ ProtectedRequestUnreachable
    /\ clog.respLog = <<>>
    /\ clog.authCalls = 0
    /\ inner.cause = "ConnectionError"
    /\ token # None

\* the ceiling is in range, and it is what every req_with_retry call is given
CeilingInRange ==
    /\ max_req_retries \in 1..10
    /\ pc = "retry" => (max_tries = max_req_retries /\ rlog.max = max_req_retries)
\* what a step does to the ceiling: only set_max_request_retries changes it, to its
\* argument when that is an int in 1..10, and not at all, raising, otherwise
CeilingStep ==
    IF pc = "idle" /\ op' = "set_max_request_retries"
      THEN IF clog'.arg.is_int /\ clog'.arg.value \in 1..10
             THEN /\ max_req_retries' = clog'.arg.value
                  /\ result' = Returned(NoneResp)
             ELSE /\ max_req_retries' = max_req_retries
                  /\ result'.outcome = "raised"
                  /\ result'.type = "ClientException"
      ELSE max_req_retries' = max_req_retries

\* C14: the attempt ceiling starts at 5 and stays an integer in 1..10 whatever
\* set_max_request_retries is called with: an argument outside 1..10 (or no int)
\* raises ClientException and leaves it, an argument inside sets it to that value,
\* which is the max_tries of the requests that follow.
C14_CeilingStaysInRange ==
    /\ max_req_retries = 5
    /\ []CeilingInRange
    /\ [][CeilingStep]_vars
C14_Witness ==
    /\ op = "set_max_request_retries"
    /\ clog.arg = IntArg(11)
    /\ result.outcome = "raised"
    /\ max_req_retries = 10


\* every req_with_retry call of the session is given the session's ceiling
UsesSessionCeiling ==
    /\ pc = "retry" => max_tries = max_req_retries
    /\ rlog.calls >= 1 => (rlog.max = max_req_retries /\ rlog.calls <= max_req_retries)

\* C15 as stated: every HTTP attempt, protected or authenticate, carries the
\* session's configured maximum attempt count and its configured timeout.
C15_EveryRequestUsesSessionPolicy ==
    /\ UsesSessionCeiling
    /\ wire.kind # "none" => wire.timeout = timeout

\* C15 amended: every HTTP attempt is made under the session's configured maximum
\* attempt count; a protected request carries the session's configured timeout,
\* and an authenticate request always carries 30 seconds, whatever set_timeout set.
C15_TimeoutByRequestKind ==
    /\ UsesSessionCeiling
    /\ wire.kind = "request" => wire.timeout = timeout
    /\ wire.kind = "auth" => wire.timeout = 30
C15_Witness ==
    /\ wire.kind = "auth"
    /\ wire.timeout = 30
    /\ timeout = 1
    /\ max_req_retries = 7
    /\ rlog.calls = 7


\* C16: in req_with_retry the wait before attempt number i is 2*(i-1) seconds, zero
\* before the first, whatever the earlier attempts ended with (fault or 5xx); the
\* time slept by a call that made i attempts is the sum of those waits, i*(i-1),
\* and nothing more: no sleep follows the last attempt.
C16_LinearBackoff ==
    /\ rlog.calls >= 1 =>
          /\ rlog.wait = 2 * (rlog.calls - 1)
          /\ rlog.slept = rlog.calls * (rlog.calls - 1)
    /\ rlog.calls = 0 => rlog.slept = 0
    /\ pc = "retry" => tries = rlog.calls
C16_Witness ==
    /\ rlog.calls = 10
    /\ rlog.wait = 18
    /\ rlog.slept = 90
    /\ ~rlog.allFault
    /\ ~rlog.all5xx
    /\ rlog.ended = "returned"


\* C17: one req_with_retry call is decided by the last attempt it made. It raises
\* the connectivity error exactly when attempt number max_tries met a connection
\* fault, whatever the earlier attempts received; otherwise it returns the response
\* of the last attempt made: a response below 500 that ended the loop, or the 5xx
\* of attempt number max_tries, never an earlier response and never None.
C17_LastAttemptDecides ==
    /\ rlog.ended = "raised" =>
          /\ rlog.calls = rlog.max
          /\ rlog.last = ConnectionError
          /\ result.outcome = "raised"
          /\ result.message = "Cannot connect to API"
    /\ (rlog.calls >= 1 /\ rlog.calls = rlog.max /\ rlog.last = ConnectionError) =>
          rlog.ended = "raised"
    /\ rlog.ended = "returned" =>
          /\ pc \in {"decide", "auth_resp"}
          /\ rlog.calls >= 1
          /\ IsResponse(rlog.last)
          /\ resp = rlog.last
          /\ resp # NoneResp
          /\ IF resp.status_code < 500 THEN TRUE ELSE rlog.calls = rlog.max
    /\ (rlog.ended = "none" /\ rlog.calls >= 1) => pc = "retry"
C17_Witness ==
    /\ rlog.ended = "raised"
    /\ rlog.calls = 3
    /\ rlog.max = 3
    /\ ~rlog.allFault
    /\ rlog.last = ConnectionError
    /\ result.message = "Cannot connect to API"
\* the other side of C17: a fault, then a 5xx on the last attempt, returned as it is
C17_ReturnsAfterFault ==
    /\ rlog.ended = "returned"
    /\ rlog.calls = 3
    /\ ~rlog.allFault
    /\ ~rlog.all5xx
    /\ resp.status_code = 500


\* the authenticate request of the running operation was answered 200
AuthRefreshed == IF IsResponse(clog.authResp) THEN clog.authResp.status_code = 200 ELSE FALSE

\* C18: in every state the stored token and the session's Authorization header
\* agree: both absent, or the header is 'Bearer ' followed by the token. Within an
\* operation they are what they were when it was called unless its authenticate
\* request was answered 200, so a failed authenticate, a failed protected request
\* or a connectivity error leaves both as they were.
C18_TokenAndHeaderAgree ==
    /\ IF token = None THEN authorization = None
                       ELSE authorization = "Bearer " \o token
    /\ IF AuthRefreshed THEN token = clog.authResp.text
                        ELSE /\ token = clog.entryToken
                             /\ authorization = clog.entryAuthorization
C18_Witness ==
    /\ pc = "idle"
    /\ result.outcome = "raised"
    /\ result.message = "API authentication failed: invalid id/key combination or key inactive"
    /\ token = "body1"
    /\ authorization = "Bearer body1"
    /\ clog.entryToken = "body1"


\* C19 as stated: the call made again after the re-authentication fallback has the
\* descriptor of the original call (method, url, params, data and headers), and the
\* request it sends is the original call's request, the bearer token apart.
C19_ReissuedSameDescriptor ==
    stop =>
        /\ desc.method = clog.desc.method
        /\ desc.url = clog.desc.url
        /\ desc.params = clog.desc.params
        /\ desc.data = clog.desc.data
        /\ desc.headers = clog.desc.headers
        /\ wire.kind = "request" =>
              wire = ProtectedRequest(clog.desc, timeout, authorization)

====
